---- MODULE Spec2Model ----
(***************************************************************************)
(* Model of src/analyzer.cpp: the TripAnalyzer CSV aggregator.             *)
(*                                                                         *)
(* A string is a sequence of byte values (ASCII codes).  A C++ index i     *)
(* (0-based) into a string s is the TLA+ index i + 1.                      *)
(***************************************************************************)
EXTENDS Integers, Sequences, FiniteSets, TLC

(***************************************************************************)
(* Bounds of the model.                                                    *)
(***************************************************************************)
\* data lines read by one ingestFile call (after the header)
MaxLines == 3
\* queries are asked for k in -1 .. MaxK
MaxK == 2
\* data lines of one ingestFile call in the ingest specification
MaxParseLines == 1
\* instances that call ingestFile in the multi-instance specification
NumIngesters == 2

(***************************************************************************)
(* Byte values the code names.                                             *)
(***************************************************************************)
Comma == 44
Space == 32
Quote == 34
Digit0 == 48
Digit9 == 57
\* std::string::npos: the code only ever tests equality with it
NPOS == -1
\* implMap.size() > 200 in cleanupIfNeeded
CleanupThreshold == 200
\* std::array<long long, 24>
Hours == 24

At(s, i) == s[i + 1]

(***************************************************************************)
(* fastParseHour(p, len), with p = line.data() + off.                      *)
(***************************************************************************)
isdigitNoUpper(c) == c >= Digit0

isdigit(c) == c >= Digit0 /\ c <= Digit9

fastParseHour(line, off, len) ==
    IF len < 13 THEN -1
    ELSE IF At(line, off + 10) # Space THEN -1
    ELSE LET c1 == At(line, off + 11)
             c2 == At(line, off + 12)
         IN  IF ~isdigit(c1) \/ ~isdigit(c2) THEN -1
             ELSE LET h == (c1 - Digit0) * 10 + (c2 - Digit0)
                  IN  IF h >= 0 /\ h <= 23 THEN h ELSE -1

(***************************************************************************)
(* findComma(s, start) == s.find(',', start)                               *)
(***************************************************************************)
findComma(s, start) ==
    LET hits == {i \in start .. Len(s) - 1 : At(s, i) = Comma}
    IN  IF hits = {} THEN NPOS
        ELSE CHOOSE i \in hits : \A j \in hits : i <= j

(***************************************************************************)
(* class TripAnalyzerImpl                                                  *)
(***************************************************************************)
NoIndex == [z \in {} |-> 0]

EmptyImpl == [zoneIndex |-> NoIndex, zones |-> <<>>,
              zoneCounts |-> <<>>, hourCounts |-> <<>>]

clearAllKeepCounts(impl) ==
    [impl EXCEPT !.zoneIndex = NoIndex, !.zones = <<>>]

clearAllKeepZones(impl) ==
    [impl EXCEPT !.zoneCounts = <<>>, !.hourCounts = <<>>]

clearAll(impl) ==
    [zoneIndex |-> NoIndex, zones |-> <<>>,
     zoneCounts |-> <<>>, hourCounts |-> <<>>]

ZeroHours == [h \in 0 .. Hours - 1 |-> 0]

(***************************************************************************)
(* The part of the loop body that parses one line (lines 88-130): the      *)
(* result is either Skip (a continue) or the zone key and the hour.        *)
(***************************************************************************)
Skip == [ok |-> FALSE]

ParseLineFourCommas(line) ==
    IF Len(line) = 0 THEN Skip
    ELSE LET c0 == findComma(line, 0) IN
    IF c0 = NPOS THEN Skip
    ELSE LET c1 == findComma(line, c0 + 1) IN
    IF c1 = NPOS THEN Skip
    ELSE LET c2 == findComma(line, c1 + 1) IN
    IF c2 = NPOS THEN Skip
    ELSE LET c3 == findComma(line, c2 + 1) IN
    IF c3 = NPOS THEN Skip
    ELSE LET zStart == c0 + 1
             zLen == IF c1 > zStart THEN c1 - zStart ELSE 0
         IN
    IF zLen = 0 THEN Skip
    ELSE LET dtStart == c2 + 1
             dtLen == IF c3 > dtStart THEN c3 - dtStart ELSE 0
         IN
    IF dtLen = 0 THEN Skip
    ELSE LET quoted == dtLen >= 2 /\ At(line, dtStart) = Quote
                         /\ At(line, dtStart + dtLen - 1) = Quote
             dtOff == IF quoted THEN dtStart + 1 ELSE dtStart
             dtRealLen == IF quoted THEN dtLen - 2 ELSE dtLen
             hour == fastParseHour(line, dtOff, dtRealLen)
         IN
    IF hour < 0 THEN Skip
    ELSE [ok |-> TRUE, zone |-> SubSeq(line, zStart + 1, zStart + zLen),
          hour |-> hour]

ParseLine(line) ==
    IF Len(line) = 0 THEN Skip
    ELSE LET c0 == findComma(line, 0) IN
    IF c0 = NPOS THEN Skip
    ELSE LET c1 == findComma(line, c0 + 1) IN
    IF c1 = NPOS THEN Skip
    ELSE LET c2 == findComma(line, c1 + 1) IN
    IF c2 = NPOS THEN Skip
    ELSE LET c3 == findComma(line, c2 + 1) IN
    IF c3 = NPOS THEN Skip
    ELSE LET c4 == findComma(line, c3 + 1) IN
    IF c4 = NPOS THEN Skip
    ELSE LET zStart == c0 + 1
             zLen == IF c1 > zStart THEN c1 - zStart ELSE 0
         IN
    IF zLen = 0 THEN Skip
    ELSE LET dtStart == c2 + 1
             dtLen == IF c3 > dtStart THEN c3 - dtStart ELSE 0
         IN
    IF dtLen = 0 THEN Skip
    ELSE LET quoted == dtLen >= 2 /\ At(line, dtStart) = Quote
                         /\ At(line, dtStart + dtLen - 1) = Quote
             dtOff == IF quoted THEN dtStart + 1 ELSE dtStart
             dtRealLen == IF quoted THEN dtLen - 2 ELSE dtLen
             hour == fastParseHour(line, dtOff, dtRealLen)
         IN
    IF hour < 0 THEN Skip
    ELSE [ok |-> TRUE, zone |-> SubSeq(line, zStart + 1, zStart + zLen),
          hour |-> hour]

(***************************************************************************)
(* The part of the loop body that updates the registry and the counters    *)
(* (lines 133-152).                                                        *)
(***************************************************************************)
CountNoHour(impl, zoneKey, hour) ==
    LET known == zoneKey \in DOMAIN impl.zoneIndex
        idx == IF known THEN impl.zoneIndex[zoneKey] ELSE Len(impl.zones)
        grown == IF known THEN impl
                 ELSE [zoneIndex |-> impl.zoneIndex @@ (zoneKey :> idx),
                       zones |-> Append(impl.zones, zoneKey),
                       zoneCounts |-> Append(impl.zoneCounts, 0),
                       hourCounts |-> Append(impl.hourCounts, ZeroHours)]
    IN  IF known
        THEN [grown EXCEPT !.zoneCounts[idx + 1] = @ + 1,
                           !.hourCounts[idx + 1][hour] = @ + 1]
        ELSE [grown EXCEPT !.zoneCounts[idx + 1] = @ + 1]

CountNewZoneUncounted(impl, zoneKey, hour) ==
    LET known == zoneKey \in DOMAIN impl.zoneIndex
        idx == IF known THEN impl.zoneIndex[zoneKey] ELSE Len(impl.zones)
        grown == IF known THEN impl
                 ELSE [zoneIndex |-> impl.zoneIndex @@ (zoneKey :> idx),
                       zones |-> Append(impl.zones, zoneKey),
                       zoneCounts |-> Append(impl.zoneCounts, 0),
                       hourCounts |-> Append(impl.hourCounts, ZeroHours)]
    IN  IF known
        THEN [grown EXCEPT !.zoneCounts[idx + 1] = @ + 1,
                           !.hourCounts[idx + 1][hour] = @ + 1]
        ELSE grown

CountAlwaysNew(impl, zoneKey, hour) ==
    LET idx == Len(impl.zones)
        grown == [zoneIndex |-> (zoneKey :> idx) @@ impl.zoneIndex,
                  zones |-> Append(impl.zones, zoneKey),
                  zoneCounts |-> Append(impl.zoneCounts, 0),
                  hourCounts |-> Append(impl.hourCounts, ZeroHours)]
    IN  [grown EXCEPT !.zoneCounts[idx + 1] = @ + 1,
                      !.hourCounts[idx + 1][hour] = @ + 1]

Count(impl, zoneKey, hour) ==
    LET known == zoneKey \in DOMAIN impl.zoneIndex
        idx == IF known THEN impl.zoneIndex[zoneKey] ELSE Len(impl.zones)
        grown == IF known THEN impl
                 ELSE [zoneIndex |-> impl.zoneIndex @@ (zoneKey :> idx),
                       zones |-> Append(impl.zones, zoneKey),
                       zoneCounts |-> Append(impl.zoneCounts, 0),
                       hourCounts |-> Append(impl.hourCounts, ZeroHours)]
    IN  [grown EXCEPT !.zoneCounts[idx + 1] = @ + 1,
                      !.hourCounts[idx + 1][hour] = @ + 1]

\* one iteration of while (std::getline(file, line))
ProcessLine(impl, line) ==
    LET p == ParseLine(line)
    IN  IF p.ok THEN Count(impl, p.zone, p.hour) ELSE impl

(***************************************************************************)
(* void TripAnalyzer::ingestFile as one call on a whole file.  A file is   *)
(* [open |-> can it be opened, lines |-> its lines, the header first].     *)
(***************************************************************************)
RECURSIVE ProcessLines(_, _)
ProcessLines(impl, lines) ==
    IF lines = <<>> THEN impl
    ELSE ProcessLines(ProcessLine(impl, Head(lines)), Tail(lines))

NoImpls == [t \in {} |-> EmptyImpl]

\* static void cleanupIfNeeded()
cleanupIfNeeded(m) ==
    IF Cardinality(DOMAIN m) > CleanupThreshold THEN NoImpls ELSE m

\* static TripAnalyzerImpl* getImpl(const TripAnalyzer* ta): the map after
\* the call; the pointer returned is the entry of ta
getImpl(m, ta) ==
    IF ta \in DOMAIN m THEN m ELSE m @@ (ta :> EmptyImpl)

\* lines 70-73: the map once the instance's entry is found and cleared
BeginIngest(m, ta) ==
    LET m2 == getImpl(cleanupIfNeeded(m), ta)
    IN  [m2 EXCEPT ![ta] = clearAll(@)]

ingestFile(m, ta, f) ==
    LET m3 == BeginIngest(m, ta)
    IN  IF ~f.open THEN m3
        ELSE IF f.lines = <<>> THEN m3
        ELSE [m3 EXCEPT ![ta] = ProcessLines(@, Tail(f.lines))]

(***************************************************************************)
(* Strings compare as std::string does: lexicographically, by byte.        *)
(***************************************************************************)
RECURSIVE StrLess(_, _)
StrLess(a, b) ==
    IF b = <<>> THEN FALSE
    ELSE IF a = <<>> THEN TRUE
    ELSE IF Head(a) # Head(b) THEN Head(a) < Head(b)
    ELSE StrLess(Tail(a), Tail(b))

(***************************************************************************)
(* std::sort and std::nth_element promise an arrangement, not a way of     *)
(* reaching it: each is the set of arrangements the standard allows.       *)
(***************************************************************************)
\* the ways of arranging n things (those of up to MaxLines things are
\* computed once)
Injective(n) == {f \in [1 .. n -> 1 .. n] : \A i, j \in 1 .. n : f[i] = f[j] => i = j}

PermTable == [n \in 0 .. MaxLines |-> Injective(n)]

Perms(n) == IF n <= MaxLines THEN PermTable[n] ELSE Injective(n)

Arrange(v, f) == [i \in 1 .. Len(v) |-> v[f[i]]]

\* the comparator cmp of a query, as the set of the pairs <<a, b>> of
\* elements of v with cmp(a, b), is what the three operators below take

\* std::sort(v.begin(), v.end(), cmp)
SortOutcomes(v, cmp) ==
    {Arrange(v, f) : f \in {g \in Perms(Len(v)) :
        \A i, j \in 1 .. Len(v) : i < j => <<v[g[j]], v[g[i]]>> \notin cmp}}

\* std::nth_element(v.begin(), v.begin() + k, v.end(), cmp), 0 <= k < size
NthElementOutcomes(v, k, cmp) ==
    {Arrange(v, f) : f \in {g \in Perms(Len(v)) :
        /\ \A i \in 1 .. k : <<v[g[k + 1]], v[g[i]]>> \notin cmp
        /\ \A j \in k + 2 .. Len(v) : <<v[g[j]], v[g[k + 1]]>> \notin cmp}}

\* the tail both queries share (lines 171-180, 202-211)
SelectTop(all, k, cmp) ==
    IF k <= 0 THEN {<<>>}
    ELSE IF Len(all) <= k THEN SortOutcomes(all, cmp)
    ELSE UNION {SortOutcomes(SubSeq(p, 1, k), cmp) :
                    p \in NthElementOutcomes(all, k, cmp)}

\* the elements of a vector
Elems(v) == {v[i] : i \in 1 .. Len(v)}

(***************************************************************************)
(* topZones                                                                *)
(***************************************************************************)
ZoneCmpCountOnly(a, b) == a.count > b.count

ZoneCmp(a, b) ==
    IF a.count # b.count THEN a.count > b.count
    ELSE StrLess(a.zone, b.zone)

topZones(impl, k) ==
    LET result == [i \in 1 .. Len(impl.zones) |->
                      [zone |-> impl.zones[i], count |-> impl.zoneCounts[i]]]
    IN  SelectTop(result, k,
                  {x \in Elems(result) \X Elems(result) : ZoneCmp(x[1], x[2])})

(***************************************************************************)
(* topBusySlots                                                            *)
(***************************************************************************)
SlotCmpNoHour(a, b) ==
    IF a.count # b.count THEN a.count > b.count
    ELSE IF a.zone # b.zone THEN StrLess(a.zone, b.zone)
    ELSE FALSE

SlotCmp(a, b) ==
    IF a.count # b.count THEN a.count > b.count
    ELSE IF a.zone # b.zone THEN StrLess(a.zone, b.zone)
    ELSE a.hour < b.hour

\* the slots of zone i from hour h on, in the order the inner loop pushes them
RECURSIVE SlotsOfZone(_, _, _)
SlotsOfZone(impl, i, h) ==
    IF h >= Hours THEN <<>>
    ELSE LET c == impl.hourCounts[i][h]
         IN  (IF c # 0 THEN <<[zone |-> impl.zones[i], hour |-> h, count |-> c]>>
              ELSE <<>>) \o SlotsOfZone(impl, i, h + 1)

RECURSIVE SlotsFrom(_, _)
SlotsFrom(impl, i) ==
    IF i > Len(impl.zones) THEN <<>>
    ELSE SlotsOfZone(impl, i, 0) \o SlotsFrom(impl, i + 1)

topBusySlots(impl, k) ==
    LET all == SlotsFrom(impl, 1)
    IN  SelectTop(all, k,
                  {x \in Elems(all) \X Elems(all) : SlotCmp(x[1], x[2])})

(***************************************************************************)
(* The input: the lines a file may hold.                                   *)
(***************************************************************************)
RECURSIVE Join(_)
Join(fields) ==
    IF Len(fields) = 1 THEN fields[1]
    ELSE fields[1] \o <<Comma>> \o Join(Tail(fields))

TripId == <<84, 49>>                                  \* T1
ZoneA == <<65>>                                       \* A
ZoneB == <<66>>                                       \* B
ZoneAB == <<65, 66>>                                  \* AB
Dropoff == <<90>>                                     \* Z
Date == <<50, 48, 50, 52, 45, 48, 49, 45, 48, 49>>    \* 2024-01-01
Minutes == <<58, 51, 48>>                             \* :30
Distance == <<53>>                                    \* 5
Fare == <<57>>                                        \* 9

DateTime(sep, h1, h2, tail) == Date \o <<sep, h1, h2>> \o tail
Quoted(s) == <<Quote>> \o s \o <<Quote>>
Line(zone, dt) == Join(<<TripId, zone, Dropoff, dt, Distance, Fare>>)

Dt08 == DateTime(Space, 48, 56, Minutes)              \* 2024-01-01 08:30
Dt23 == DateTime(Space, 50, 51, Minutes)              \* 2024-01-01 23:30
Dt25 == DateTime(Space, 50, 53, Minutes)              \* 2024-01-01 25:30

\* TripID,PickupZoneID,...: a header has no hour at the datetime's place
HeaderLine == Join(<<TripId, ZoneA, Dropoff, <<68, 84>>, Distance, Fare>>)

GoodLines ==
    {Line(ZoneA, Dt08), Line(ZoneB, Quoted(Dt08)), Line(ZoneAB, Dt08),
     Line(ZoneA, Dt23)}

BadLines ==
    {<<>>,                                               \* empty line
     Join(<<TripId, ZoneA, Dropoff, Dt08, Distance>>),   \* four commas
     Line(<<>>, Dt08),                                   \* empty zone
     Line(ZoneB, <<>>),                                  \* empty datetime
     Line(ZoneB, Dt25)}                                  \* hour 25

DataLines == GoodLines \cup BadLines

\* the first line is discarded whatever it holds, a countable line too
HeaderLines == {HeaderLine, Line(ZoneB, Dt08)}

\* a first line that would count if it were not the first
CountableHeaders == {Line(ZoneB, Dt08)}

\* the datetime fields of the ingest specification: every way of
\* wrapping in quotes, the separator, the hour digits and the length
HourDigits ==
    {<<48, 48>>, <<50, 51>>, <<50, 52>>, <<51, 48>>,     \* 00 23 24 30
     <<47, 48>>, <<48, 47>>, <<58, 48>>, <<48, 58>>}     \* /0 0/ :0 0:

DtCores ==
    {DateTime(Space, h[1], h[2], tail) :
        h \in HourDigits, tail \in {<<>>, Minutes}}
    \cup {DateTime(88, 48, 56, <<>>), DateTime(88, 48, 56, Minutes),  \* X08
          Date \o <<Space, 48>>, Date \o <<Space>>, <<>>}

DtFields ==
    UNION {{c, Quoted(c), <<Quote>> \o c, c \o <<Quote>>} : c \in DtCores}

ParseLines ==
    {Line(ZoneA, dt) : dt \in DtFields}
    \cup {Join(<<TripId, ZoneA, Dropoff, Dt08, <<>>>>),  \* exactly five commas
          Join(<<TripId, ZoneA, Dropoff, Dt08>>),        \* three commas
          Join(<<TripId, ZoneA, Dropoff \o Dt08>>)}      \* two commas

(***************************************************************************)
(* The state.                                                              *)
(***************************************************************************)
VARIABLES
    implMap,    \* static implMap: TripAnalyzer* -> TripAnalyzerImpl
    pc,         \* where the instance This is: "idle", or "loop" in ingestFile
    file,       \* the file of the latest ingestFile of This, as read so far
    hadState,   \* whether This had zones when its latest ingestFile began
    ret,        \* what the latest query returned
    lastFile,   \* multi-instance: the file of each instance's latest ingest
    fresh       \* multi-instance: the next instance not yet used

vars == <<implMap, pc, file, hadState, ret, lastFile, fresh>>

\* the instance of the single-instance specifications
This == 1

NoFile == [called |-> FALSE, open |-> FALSE, lines |-> <<>>]
NoRet == [op |-> "none", k |-> 0, val |-> <<>>]
KRange == -1 .. MaxK

\* the state of an instance: what getImpl would hand out for it
ImplOf(m, ta) == IF ta \in DOMAIN m THEN m[ta] ELSE EmptyImpl

Init ==
    /\ implMap = NoImpls
    /\ pc = "idle"
    /\ file = NoFile
    /\ hadState = FALSE
    /\ ret = NoRet
    /\ lastFile = <<>>
    /\ fresh = 0

(***************************************************************************)
(* ingestFile of This, one step per std::getline.                          *)
(***************************************************************************)
\* lines 70-80: up to the header.  hadState is a history variable, kept
\* only where track says so
IngestBegin(headers, track) ==
    /\ pc = "idle"
    /\ implMap' = BeginIngest(implMap, This)
    /\ hadState' = (track /\ ImplOf(implMap, This).zones # <<>>)
    /\ ret' = NoRet
    /\ \/ /\ file' = [called |-> TRUE, open |-> FALSE, lines |-> <<>>]
          /\ pc' = "idle"
       \/ /\ file' = [called |-> TRUE, open |-> TRUE, lines |-> <<>>]
          /\ pc' = "idle"
       \/ \E h \in headers :
            /\ file' = [called |-> TRUE, open |-> TRUE, lines |-> <<h>>]
            /\ pc' = "loop"
    /\ UNCHANGED <<lastFile, fresh>>

\* lines 87-153: std::getline gives a line, and the loop body runs on it
IngestLine(line, max) ==
    /\ pc = "loop"
    /\ Len(file.lines) - 1 < max
    /\ implMap' = [implMap EXCEPT ![This] = ProcessLine(@, line)]
    /\ file' = [file EXCEPT !.lines = Append(@, line)]
    /\ UNCHANGED <<pc, hadState, ret, lastFile, fresh>>

\* line 87: std::getline fails, the file is at its end
IngestEnd ==
    /\ pc = "loop"
    /\ pc' = "idle"
    /\ UNCHANGED <<implMap, file, hadState, ret, lastFile, fresh>>

TopZones(k) ==
    /\ pc = "idle"
    /\ implMap' = getImpl(implMap, This)
    /\ \E r \in topZones(ImplOf(implMap, This), k) :
           ret' = [op |-> "topZones", k |-> k, val |-> r]
    /\ UNCHANGED <<pc, file, hadState, lastFile, fresh>>

TopBusySlots(k) ==
    /\ pc = "idle"
    /\ implMap' = getImpl(implMap, This)
    /\ \E r \in topBusySlots(ImplOf(implMap, This), k) :
           ret' = [op |-> "topBusySlots", k |-> k, val |-> r]
    /\ UNCHANGED <<pc, file, hadState, lastFile, fresh>>

Next ==
    \/ IngestBegin(CountableHeaders, FALSE)
    \/ \E line \in DataLines : IngestLine(line, MaxLines)
    \/ IngestEnd
    \/ \E k \in KRange : TopZones(k)
    \/ \E k \in KRange : TopBusySlots(k)

Spec == Init /\ [][Next]_vars

(***************************************************************************)
(* The ingest specification: ingestFile of This, called again and again,   *)
(* over files whose data lines vary in every byte the parse looks at.      *)
(***************************************************************************)
NextIngest ==
    \/ IngestBegin(HeaderLines, TRUE)
    \/ \E line \in ParseLines : IngestLine(line, MaxParseLines)
    \/ IngestEnd

SpecIngest == Init /\ [][NextIngest]_vars

(***************************************************************************)
(* The multi-instance specification: whole calls, one after the other, on  *)
(* many live instances.  The instances 1 .. NumIngesters ingest and query; *)
(* every other instance is queried once, in the order of the instances.    *)
(***************************************************************************)
Ingesters == 1 .. NumIngesters
MaxInstances == CleanupThreshold + NumIngesters

MultiFiles ==
    {[called |-> TRUE, open |-> FALSE, lines |-> <<>>],
     [called |-> TRUE, open |-> TRUE, lines |-> <<HeaderLine, Line(ZoneA, Dt08)>>],
     [called |-> TRUE, open |-> TRUE,
      lines |-> <<HeaderLine, Line(ZoneB, Quoted(Dt08)), Line(ZoneB, Dt25)>>]}

\* the instances a call may be made on
Callable == Ingesters \cup {t \in {fresh} : t <= MaxInstances}

MIngestFile(t, f) ==
    /\ implMap' = ingestFile(implMap, t, f)
    /\ lastFile' = [lastFile EXCEPT ![t] = f]
    /\ ret' = NoRet
    /\ UNCHANGED <<pc, file, hadState, fresh>>

MTopZones(t, k) ==
    /\ implMap' = getImpl(implMap, t)
    /\ \E r \in topZones(ImplOf(implMap, t), k) :
           ret' = [op |-> "topZones", k |-> k, val |-> r]
    /\ fresh' = IF t = fresh THEN fresh + 1 ELSE fresh
    /\ UNCHANGED <<pc, file, hadState, lastFile>>

MTopBusySlots(t, k) ==
    /\ implMap' = getImpl(implMap, t)
    /\ \E r \in topBusySlots(ImplOf(implMap, t), k) :
           ret' = [op |-> "topBusySlots", k |-> k, val |-> r]
    /\ fresh' = IF t = fresh THEN fresh + 1 ELSE fresh
    /\ UNCHANGED <<pc, file, hadState, lastFile>>

InitMulti ==
    /\ implMap = NoImpls
    /\ pc = "idle"
    /\ file = NoFile
    /\ hadState = FALSE
    /\ ret = NoRet
    /\ lastFile = [t \in Ingesters |-> NoFile]
    /\ fresh = NumIngesters + 1

NextMulti ==
    \/ \E t \in Ingesters, f \in MultiFiles : MIngestFile(t, f)
    \/ \E t \in Callable : MTopZones(t, 1)
    \/ \E t \in Callable : MTopBusySlots(t, 1)

SpecMulti == InitMulti /\ [][NextMulti]_vars

(***************************************************************************)
(* What the claims speak of.                                               *)
(***************************************************************************)
\* the state of the instance This
Me == ImplOf(implMap, This)

\* the data lines read so far by the latest ingestFile of This
DataRead == IF file.lines = <<>> THEN <<>> ELSE Tail(file.lines)

Min(a, b) == IF a < b THEN a ELSE b
Max(a, b) == IF a > b THEN a ELSE b

RECURSIVE Sum(_)
Sum(v) == IF v = <<>> THEN 0 ELSE Head(v) + Sum(Tail(v))

RECURSIVE SumHours(_, _)
SumHours(hc, h) == IF h >= Hours THEN 0 ELSE hc[h] + SumHours(hc, h + 1)

\* a line cut at every comma
RECURSIVE Fields(_)
Fields(s) ==
    LET at == {i \in 1 .. Len(s) : s[i] = Comma}
    IN  IF at = {} THEN <<s>>
        ELSE LET c == CHOOSE i \in at : \A j \in at : i <= j
             IN  <<SubSeq(s, 1, c - 1)>> \o Fields(SubSeq(s, c + 1, Len(s)))

\* a datetime field without its one wrapping pair of double quotes
Unwrapped(d) ==
    IF Len(d) >= 2 /\ d[1] = Quote /\ d[Len(d)] = Quote
    THEN SubSeq(d, 2, Len(d) - 1) ELSE d

\* bytes 11 and 12 as a two-digit number
HourValue(u) == (u[12] - Digit0) * 10 + (u[13] - Digit0)

HasHour(u) ==
    /\ Len(u) >= 13
    /\ u[11] = Space
    /\ u[12] \in Digit0 .. Digit9
    /\ u[13] \in Digit0 .. Digit9
    /\ HourValue(u) \in 0 .. 23

\* five commas at least, a zone and a datetime
HasFields(line) ==
    /\ Len(Fields(line)) >= 6
    /\ Fields(line)[2] # <<>>
    /\ Fields(line)[4] # <<>>

WellFormed(line) == HasFields(line) /\ HasHour(Unwrapped(Fields(line)[4]))

\* the elements of S in a row, each at the place after those before it;
\* before is the set of the pairs <<x, y>> with x before y
Ranked(S, before) ==
    [i \in 1 .. Cardinality(S) |->
        CHOOSE x \in S : Cardinality({y \in S : <<y, x>> \in before}) = i - 1]

Take(v, n) == SubSeq(v, 1, n)

ZoneBefore(a, b) ==
    a.count > b.count \/ (a.count = b.count /\ StrLess(a.zone, b.zone))

AllZones ==
    {[zone |-> Me.zones[i], count |-> Me.zoneCounts[i]] :
        i \in 1 .. Len(Me.zones)}

(***************************************************************************)
(* C1: topZones(k) returns exactly the first min(max(k, 0), n) of the n    *)
(* zones ranked by count, larger first, then by zone string, smaller       *)
(* first: nothing for k <= 0, every zone when n <= k, and of the zones     *)
(* that tie at the k-th place those with the smallest strings.             *)
(***************************************************************************)
C1_TopZonesExact ==
    ret.op = "topZones" =>
        ret.val = Take(Ranked(AllZones, {x \in AllZones \X AllZones :
                                          ZoneBefore(x[1], x[2])}),
                       Min(Max(ret.k, 0), Cardinality(AllZones)))

\* two zones asked for of three that tie, the first seen not among them
C1_Witness ==
    /\ ret.op = "topZones"
    /\ ret.k = 2
    /\ Len(ret.val) = 2
    /\ Cardinality(AllZones) = 3
    /\ \A z \in AllZones : z.count = ret.val[1].count
    /\ \A i \in 1 .. 2 : ret.val[i].zone # Me.zones[1]

SlotBefore(a, b) ==
    \/ a.count > b.count
    \/ a.count = b.count /\ StrLess(a.zone, b.zone)
    \/ a.count = b.count /\ a.zone = b.zone /\ a.hour < b.hour

BusySlots ==
    {[zone |-> Me.zones[i], hour |-> h, count |-> Me.hourCounts[i][h]] :
        <<i, h>> \in {x \in (1 .. Len(Me.zones)) \X (0 .. Hours - 1) :
                          Me.hourCounts[x[1]][x[2]] # 0}}

(***************************************************************************)
(* C2: topBusySlots(k) returns exactly the first min(max(k, 0), m) of the  *)
(* m (zone, hour) pairs of non-zero count ranked by count, larger first,   *)
(* then zone string, then hour, smaller first; no entry returned has       *)
(* count 0 and the result is not padded.                                   *)
(***************************************************************************)
C2_TopBusySlotsExact ==
    ret.op = "topBusySlots" =>
        /\ ret.val = Take(Ranked(BusySlots, {x \in BusySlots \X BusySlots :
                                              SlotBefore(x[1], x[2])}),
                          Min(Max(ret.k, 0), Cardinality(BusySlots)))
        /\ \A i \in 1 .. Len(ret.val) : ret.val[i].count # 0

\* two slots asked for of three that tie, those returned of one zone
C2_Witness ==
    /\ ret.op = "topBusySlots"
    /\ ret.k = 2
    /\ Len(ret.val) = 2
    /\ Cardinality(BusySlots) = 3
    /\ \A z \in BusySlots : z.count = ret.val[1].count
    /\ ret.val[1].zone = ret.val[2].zone
    /\ ret.val[1].zone # Me.zones[1]

(***************************************************************************)
(* C3: after ingestFile(S1) and then ingestFile(S2) on an instance its     *)
(* state is the state ingestFile(S2) alone leaves a new instance in:       *)
(* nothing of S1 survives.  (Once the call has returned, the file as read  *)
(* is the whole file.)                                                     *)
(***************************************************************************)
C3_SecondIngestReplaces ==
    (pc = "idle" /\ file.called) =>
        Me = ImplOf(ingestFile(NoImpls, This, file), This)

\* an ingest that began with zones registered and ended with zones
C3_Witness ==
    /\ pc = "idle"
    /\ file.called
    /\ hadState
    /\ Me.zones # <<>>

(***************************************************************************)
(* C4: ingestFile of a file that cannot be opened, has no line or has      *)
(* only a header returns, and leaves the instance without zones, whatever  *)
(* it held before; both queries then return nothing, for every k.          *)
(***************************************************************************)
C4_FailedIngestEmpties ==
    /\ (file.called /\ (~file.open \/ file.lines = <<>>)) => pc = "idle"
    /\ (file.called /\ (~file.open \/ Len(file.lines) <= 1)) =>
           /\ Me = EmptyImpl
           /\ \A k \in KRange :
                  topZones(Me, k) = {<<>>} /\ topBusySlots(Me, k) = {<<>>}

\* a file that cannot be opened, ingested by an instance that had zones
C4_Witness ==
    /\ pc = "idle"
    /\ file.called
    /\ ~file.open
    /\ hadState

(***************************************************************************)
(* C5: an empty or malformed data line (fewer than five commas, empty      *)
(* zone, empty datetime, invalid hour) changes nothing and the next line   *)
(* is processed: after every line the state is the state the well-formed   *)
(* lines read so far, alone, lead to.                                      *)
(***************************************************************************)
C5_MalformedLinesSkipped ==
    (file.called /\ file.open) =>
        Me = ProcessLines(EmptyImpl, SelectSeq(DataRead, WellFormed))

\* a malformed line, then an empty line, then a line that was counted
C5_Witness ==
    /\ pc = "idle"
    /\ Len(DataRead) = 3
    /\ ~WellFormed(DataRead[1]) /\ DataRead[1] # <<>>
    /\ DataRead[2] = <<>>
    /\ WellFormed(DataRead[3])
    /\ Sum(Me.zoneCounts) = 1

(***************************************************************************)
(* C6: after every line of an ingest, the zone totals add up to the        *)
(* number of data lines read so far, the header not among them, that       *)
(* passed every validity check.                                            *)
(***************************************************************************)
C6_TotalsCountValidLines ==
    file.called =>
        Sum(Me.zoneCounts) =
            Cardinality({i \in 1 .. Len(DataRead) : ParseLine(DataRead[i]).ok})

\* a header that would count as a data line, then valid and invalid lines
C6_Witness ==
    /\ pc = "loop"
    /\ ParseLine(file.lines[1]).ok
    /\ Len(DataRead) = 3
    /\ Sum(Me.zoneCounts) = 2

(***************************************************************************)
(* C7: in every state, the 24 hour counters of every registered zone add   *)
(* up to the zone's total, which is at least 1.                            *)
(***************************************************************************)
C7_HoursSumToTotal ==
    \A i \in 1 .. Len(Me.zones) :
        /\ SumHours(Me.hourCounts[i], 0) = Me.zoneCounts[i]
        /\ Me.zoneCounts[i] >= 1
        /\ \E h \in 0 .. Hours - 1 : Me.hourCounts[i][h] # 0

\* a zone counted in two different hours
C7_Witness ==
    \E i \in 1 .. Len(Me.zones) :
        /\ Me.zoneCounts[i] >= 3
        /\ \E g, h \in 0 .. Hours - 1 :
               g # h /\ Me.hourCounts[i][g] # 0 /\ Me.hourCounts[i][h] # 0

(***************************************************************************)
(* C8: an operation on one instance never changes the registry or the      *)
(* counters of another live instance: the state of an instance, and so     *)
(* what its queries return, is what its own latest ingestFile left.        *)
(***************************************************************************)
C8_InstancesIndependent ==
    \A t \in Ingesters :
        lastFile[t].called =>
            ImplOf(implMap, t) = ImplOf(ingestFile(NoImpls, t, lastFile[t]), t)

\* impl with one more trip of the zone at the hour, and nothing else changed
IsCountedAt(old, new, zone, hour) ==
    /\ Sum(new.zoneCounts) = Sum(old.zoneCounts) + 1
    /\ \E i \in 1 .. Len(new.zones) :
           /\ new.zones[i] = zone
           /\ \A j \in 1 .. Len(new.zones), h \in 0 .. Hours - 1 :
                  new.hourCounts[j][h] =
                      (IF j <= Len(old.zones) THEN old.hourCounts[j][h] ELSE 0)
                      + (IF j = i /\ h = hour THEN 1 ELSE 0)

C9_LineStep ==
    (pc = "loop" /\ pc' = "loop" /\ file' # file) =>
        LET line == file'.lines[Len(file'.lines)]
            dt == Unwrapped(Fields(line)[4])
        IN  HasFields(line) =>
                IF HasHour(dt)
                THEN IsCountedAt(Me, ImplOf(implMap', This),
                                 Fields(line)[2], HourValue(dt))
                ELSE ImplOf(implMap', This) = Me

(***************************************************************************)
(* C9: a data line with five commas at least, a zone and a datetime is     *)
(* counted if and only if its datetime, without its one wrapping pair of   *)
(* double quotes, is 13 bytes long at least, has a space at byte 10 and    *)
(* digits at bytes 11 and 12 that make a number from 0 to 23; the hour     *)
(* slot incremented is then that number's.                                 *)
(***************************************************************************)
C9_CountedIffHourValid == [][C9_LineStep]_vars

\* a line whose datetime is wrapped in quotes and 13 bytes long without them
C9_Witness ==
    /\ pc = "loop"
    /\ DataRead # <<>>
    /\ HasFields(DataRead[Len(DataRead)])
    /\ LET d == Fields(DataRead[Len(DataRead)])[4]
       IN  /\ Len(d) = 15
           /\ d[1] = Quote
           /\ HasHour(Unwrapped(d))
           /\ HourValue(Unwrapped(d)) = 23
           /\ Me.zones = <<Fields(DataRead[Len(DataRead)])[2]>>
           /\ Me.hourCounts[1][23] = Len(DataRead)

\* the zones of the lines counted, each at its first occurrence
RECURSIVE FirstSeen(_, _)
FirstSeen(lines, seen) ==
    IF lines = <<>> THEN seen
    ELSE LET p == ParseLine(Head(lines))
         IN  FirstSeen(Tail(lines),
                       IF p.ok /\ \A i \in 1 .. Len(seen) : seen[i] # p.zone
                       THEN Append(seen, p.zone) ELSE seen)

C10_Registry ==
    /\ Len(Me.zoneCounts) = Len(Me.zones)
    /\ Len(Me.hourCounts) = Len(Me.zones)
    /\ \A i, j \in 1 .. Len(Me.zones) : Me.zones[i] = Me.zones[j] => i = j
    /\ DOMAIN Me.zoneIndex = {Me.zones[i] : i \in 1 .. Len(Me.zones)}
    /\ \A i \in 1 .. Len(Me.zones) : Me.zoneIndex[Me.zones[i]] = i - 1
    /\ Me.zones = FirstSeen(DataRead, <<>>)

C10_IndexKept ==
    (pc = "loop" /\ pc' = "loop") =>
        \A z \in DOMAIN Me.zoneIndex :
            /\ z \in DOMAIN ImplOf(implMap', This).zoneIndex
            /\ ImplOf(implMap', This).zoneIndex[z] = Me.zoneIndex[z]
            /\ ImplOf(implMap', This).zones[Me.zoneIndex[z] + 1] = z

(***************************************************************************)
(* C10: at every step of an ingest the registry is consistent: no zone     *)
(* twice, zones indexed in first-seen order from 0, the map sending        *)
(* zones[i] to i, the three sequences of one length; and an index, once    *)
(* given, stays during the pass.                                           *)
(***************************************************************************)
C10_RegistryConsistent == []C10_Registry /\ [][C10_IndexKept]_vars

\* three zones registered, the first seen not the smallest
C10_Witness ==
    /\ pc = "loop"
    /\ Len(Me.zones) = 3
    /\ StrLess(Me.zones[2], Me.zones[1])
    /\ Sum(Me.zoneCounts) = 3

====
